---- MODULE Spec2Model ----
(***************************************************************************)
(* Forward kinematics of the planar robot arm of robot3D_basic.py.         *)
(*                                                                         *)
(* Numbers.  Lengths are kept as integers counted in tenths of the         *)
(* source's length unit, so that the joint radius 0.4 is 4, the base       *)
(* offset (3, 2, 0) is (30, 20, 0) and a link length L is any integer.     *)
(* Rotation entries (cosines and sines) are unit-free and stay as they     *)
(* are; a homogeneous transform [[R, t], [0 0 0 1]] multiplies the same    *)
(* way in any length unit.  Angles are degrees, restricted to multiples of *)
(* 90 where cosine and sine are exactly -1, 0 or 1.                        *)
(*                                                                         *)
(* A matrix is a sequence of rows; a Python exception is a value of the    *)
(* field exc; a name that is not bound yet, and Python's None, are <<>>.   *)
(***************************************************************************)
EXTENDS Integers, Sequences, FiniteSets, TLC

VARIABLES running, rm, lf, fk, mn

vars == <<running, rm, lf, fk, mn>>

---------------------------------------------------------------------------
(* Bounds of the model *)

\* longest joint-angle list handed to forward_kinematics
MaxPhiLen == 5
\* joint angles are 90*k degrees for k in -1..MaxQuarter
MaxQuarter == 0
\* link lengths (tenths) and test translations are 0..MaxLink
MaxLink == 1
\* RotationMatrix is called directly with 90*k degrees, k in -MaxRotQuarter..MaxRotQuarter
MaxRotQuarter == 4

\* an array built by comprehension, as a stored sequence of its elements
array(f) == f \o <<>>

Angles == {90 * k : k \in -1..MaxQuarter}
RotAngles == {90 * k : k \in -MaxRotQuarter..MaxRotQuarter}
LinkLengths == 0..MaxLink
AxisNames == {"x", "y", "z", "w", "X", ""}
\* joint-angle lists of 0..MaxPhiLen entries: every choice of angles for the
\* four joints, cut short or extended with entries of 0 for joints past the fourth
PhiLists ==
    {array([i \in 1..n |-> IF i <= 4 THEN p[i] ELSE 0]) :
        p \in [1..4 -> Angles], n \in 0..MaxPhiLen}

None == <<>>

---------------------------------------------------------------------------
(* numpy helpers *)

\* np.cos(theta * np.pi / 180) on a multiple of 90 degrees
cos(theta) ==
    CASE theta % 360 = 0   -> 1
      [] theta % 360 = 90  -> 0
      [] theta % 360 = 180 -> -1
      [] theta % 360 = 270 -> 0

\* np.sin(theta * np.pi / 180) on a multiple of 90 degrees
sin(theta) ==
    CASE theta % 360 = 0   -> 0
      [] theta % 360 = 90  -> 1
      [] theta % 360 = 180 -> 0
      [] theta % 360 = 270 -> -1

RECURSIVE Dot(_, _, _, _)
\* sum over k = 1..n of A[i][k] * B[k][j], with row = A[i] and col j of B
Dot(row, B, j, n) ==
    IF n = 0 THEN 0 ELSE Dot(row, B, j, n - 1) + row[n] * B[n][j]

\* the @ operator on 2-D arrays
MatMul(A, B) ==
    array([i \in 1..Len(A) |->
              array([j \in 1..Len(B[1]) |-> Dot(A[i], B, j, Len(B))])])

\* np.zeros((1, 3))
zeros_1_3 == << <<0, 0, 0>> >>

\* np.block([[A, B], [C, d]]) with the scalar d as a 1x1 block
block(A, B, C, d) ==
    [i \in 1..Len(A) |-> A[i] \o B[i]] \o [i \in 1..Len(C) |-> C[i] \o <<d>>]

---------------------------------------------------------------------------
(* RotationMatrix(theta, axis_name) *)

\* A sign slip in the 'x' branch: the matrix is no longer a rotation.
RotationMatrix_signslip(theta, axis_name) ==
    LET c == cos(theta)
        s == sin(theta)
        after_x == IF axis_name = "x"
                   THEN << <<1, 0, 0>>, <<0, c, s>>, <<0, s, c>> >>
                   ELSE None
        after_yz == IF axis_name = "y"
                    THEN << <<c, 0, s>>, <<0, 1, 0>>, <<-s, 0, c>> >>
                    ELSE IF axis_name = "z"
                         THEN << <<c, -s, 0>>, <<s, c, 0>>, <<0, 0, 1>> >>
                         ELSE after_x
    IN  IF Len(after_yz) = 0
        THEN [exc |-> "UnboundLocalError", val |-> None]
        ELSE [exc |-> "none", val |-> after_yz]

\* The local rotation_matrix is unbound on entry; `if 'x'` binds it, then the
\* separate `if 'y' ... elif 'z'` statement rebinds it or leaves it alone;
\* `return rotation_matrix` on an unbound local raises UnboundLocalError.
RotationMatrix(theta, axis_name) ==
    LET c == cos(theta)
        s == sin(theta)
        after_x == IF axis_name = "x"
                   THEN << <<1, 0, 0>>, <<0, c, -s>>, <<0, s, c>> >>
                   ELSE None
        after_yz == IF axis_name = "y"
                    THEN << <<c, 0, s>>, <<0, 1, 0>>, <<-s, 0, c>> >>
                    ELSE IF axis_name = "z"
                         THEN << <<c, -s, 0>>, <<s, c, 0>>, <<0, 0, 1>> >>
                         ELSE after_x
    IN  IF Len(after_yz) = 0
        THEN [exc |-> "UnboundLocalError", val |-> None]
        ELSE [exc |-> "none", val |-> after_yz]

---------------------------------------------------------------------------
(* getLocalFrameMatrix(R_ij, t_ij) *)

\* np.zeros((1, 4)) in place of [zeros((1, 3)), 1]: the bottom row loses its 1.
getLocalFrameMatrix_zero_row(R_ij, t_ij) ==
    block(R_ij, t_ij, zeros_1_3, 0)

getLocalFrameMatrix(R_ij, t_ij) ==
    block(R_ij, t_ij, zeros_1_3, 1)

---------------------------------------------------------------------------
(* forward_kinematics(Phi, L1, L2, L3, L4): its frame and its statements *)

\* joint radius 0.4, in tenths
r1 == 4

\* np.array([[x], [y], [z]])
column(x, y, z) == << <<x>>, <<y>>, <<z>> >>

\* Phi[i] for a non-negative literal i (0-based) is defined iff i < len(Phi)
InRange(Phi, i) == i < Len(Phi)

\* the frame of a call on entry: arguments bound, locals unbound
Enter(Phi, L1, L2, L3, L4) ==
    [pc |-> "Matrix1", Phi |-> Phi, L1 |-> L1, L2 |-> L2, L3 |-> L3, L4 |-> L4,
     T_01 |-> None, T_12 |-> None, T_02 |-> None, T_23 |-> None,
     T_03 |-> None, T_34 |-> None, T_04 |-> None, e |-> None,
     exc |-> "none", ret |-> None]

\* A handler that hands back whatever was computed before the failure.
Raise_partial(f, exc) ==
    [f EXCEPT !.pc = "raised", !.exc = exc, !.ret = <<f.T_01, f.T_02, f.T_03>>]

\* No statement of forward_kinematics is inside a try: an exception leaves
\* the function at once and the caller receives no value.
Raise(f, exc) ==
    [f EXCEPT !.pc = "raised", !.exc = exc]

\* lines 105-108
Matrix1(f) ==
    IF f.exc # "none" THEN f
    ELSE IF ~InRange(f.Phi, 0) THEN Raise(f, "IndexError")
    ELSE LET R_01 == RotationMatrix(f.Phi[1], "z")
             p1 == column(30, 20, 0)
             t_01 == p1
         IN  IF R_01.exc # "none" THEN Raise(f, R_01.exc)
             ELSE [f EXCEPT !.T_01 = getLocalFrameMatrix(R_01.val, t_01),
                            !.pc = "Matrix2"]

\* p2 built from L1 + r1: one joint radius forgotten.
Matrix2_one_radius(f) ==
    IF f.exc # "none" THEN f
    ELSE IF ~InRange(f.Phi, 1) THEN Raise(f, "IndexError")
    ELSE LET R_12 == RotationMatrix(f.Phi[2], "z")
             p2 == column(f.L1 + r1, 0, 0)
             t_12 == p2
         IN  IF R_12.exc # "none" THEN Raise(f, R_12.exc)
             ELSE LET T_12 == getLocalFrameMatrix(R_12.val, t_12)
                  IN  [f EXCEPT !.T_12 = T_12,
                                !.T_02 = MatMul(f.T_01, T_12),
                                !.pc = "Matrix3"]

\* lines 111-116
Matrix2(f) ==
    IF f.exc # "none" THEN f
    ELSE IF ~InRange(f.Phi, 1) THEN Raise(f, "IndexError")
    ELSE LET R_12 == RotationMatrix(f.Phi[2], "z")
             p2 == column(f.L1 + 2 * r1, 0, 0)
             t_12 == p2
         IN  IF R_12.exc # "none" THEN Raise(f, R_12.exc)
             ELSE LET T_12 == getLocalFrameMatrix(R_12.val, t_12)
                  IN  [f EXCEPT !.T_12 = T_12,
                                !.T_02 = MatMul(f.T_01, T_12),
                                !.pc = "Matrix3"]

\* T_03 = T_01 @ T_23 @ T_12: the last two factors swapped.
Matrix3_swapped(f) ==
    IF f.exc # "none" THEN f
    ELSE IF ~InRange(f.Phi, 2) THEN Raise(f, "IndexError")
    ELSE LET R_23 == RotationMatrix(f.Phi[3], "z")
             p3 == column(f.L2 + 2 * r1, 0, 0)
             t_23 == p3
         IN  IF R_23.exc # "none" THEN Raise(f, R_23.exc)
             ELSE LET T_23 == getLocalFrameMatrix(R_23.val, t_23)
                  IN  [f EXCEPT !.T_23 = T_23,
                                !.T_03 = MatMul(MatMul(f.T_01, T_23), f.T_12),
                                !.pc = "Matrix4"]

\* lines 119-124
Matrix3(f) ==
    IF f.exc # "none" THEN f
    ELSE IF ~InRange(f.Phi, 2) THEN Raise(f, "IndexError")
    ELSE LET R_23 == RotationMatrix(f.Phi[3], "z")
             p3 == column(f.L2 + 2 * r1, 0, 0)
             t_23 == p3
         IN  IF R_23.exc # "none" THEN Raise(f, R_23.exc)
             ELSE LET T_23 == getLocalFrameMatrix(R_23.val, t_23)
                  IN  [f EXCEPT !.T_23 = T_23,
                                !.T_03 = MatMul(MatMul(f.T_01, f.T_12), T_23),
                                !.pc = "Matrix4"]

\* p4 built from L4 instead of L3.
Matrix4_uses_L4(f) ==
    IF f.exc # "none" THEN f
    ELSE IF ~InRange(f.Phi, 3) THEN Raise(f, "IndexError")
    ELSE LET R_34 == RotationMatrix(f.Phi[4], "z")
             p4 == column(f.L4 + 2 * r1, 0, 0)
             t_34 == p4
         IN  IF R_34.exc # "none" THEN Raise(f, R_34.exc)
             ELSE LET T_34 == getLocalFrameMatrix(R_34.val, t_34)
                  IN  [f EXCEPT !.T_34 = T_34,
                                !.T_04 = MatMul(MatMul(MatMul(f.T_01, f.T_12), f.T_23), T_34),
                                !.pc = "Return"]

\* lines 127-132
Matrix4(f) ==
    IF f.exc # "none" THEN f
    ELSE IF ~InRange(f.Phi, 3) THEN Raise(f, "IndexError")
    ELSE LET R_34 == RotationMatrix(f.Phi[4], "z")
             p4 == column(f.L3 + 2 * r1, 0, 0)
             t_34 == p4
         IN  IF R_34.exc # "none" THEN Raise(f, R_34.exc)
             ELSE LET T_34 == getLocalFrameMatrix(R_34.val, t_34)
                  IN  [f EXCEPT !.T_34 = T_34,
                                !.T_04 = MatMul(MatMul(MatMul(f.T_01, f.T_12), f.T_23), T_34),
                                !.pc = "Return"]

\* M[0:3, -1]: rows 0..2 of the last column, as a 1-D array
slice_0_3_last(M) == array([i \in 1..3 |-> M[i][Len(M[i])]])

\* e = T_03[0:3, -1]: the position of the wrong frame.
Return_e_of_T_03(f) ==
    IF f.exc # "none" THEN f
    ELSE LET e == slice_0_3_last(f.T_03)
         IN  [f EXCEPT !.e = e,
                       !.ret = <<f.T_01, f.T_02, f.T_03, f.T_04, e>>,
                       !.pc = "returned"]

\* lines 134-136
Return(f) ==
    IF f.exc # "none" THEN f
    ELSE LET e == slice_0_3_last(f.T_04)
         IN  [f EXCEPT !.e = e,
                       !.ret = <<f.T_01, f.T_02, f.T_03, f.T_04, e>>,
                       !.pc = "returned"]

\* a whole call, statement after statement
forward_kinematics(Phi, L1, L2, L3, L4) ==
    Return(Matrix4(Matrix3(Matrix2(Matrix1(Enter(Phi, L1, L2, L3, L4))))))

---------------------------------------------------------------------------
(* main(): its statements, by the names each reads and binds *)

\* names bound at module level: the imports and the five def statements
ModuleGlobals ==
    {"np", "time", "Axes", "Arrow", "Sphere", "Cylinder", "show",
     "RotationMatrix", "createCoordinateFrameMesh", "getLocalFrameMatrix",
     "forward_kinematics", "main"}

Stmt(line, reads, binds) == [line |-> line, reads |-> reads, binds |-> binds]

\* the statements of main in program order (commented-out lines are no statements)
MainBody ==
    << Stmt(140, {"Axes"}, {"axes"}),
       Stmt(142, {}, {"L1"}),
       Stmt(143, {}, {"L2"}),
       Stmt(144, {}, {"L3"}),
       Stmt(145, {}, {"L4"}),
       Stmt(148, {}, {"phi1"}),
       Stmt(149, {}, {"phi2"}),
       Stmt(150, {}, {"phi3"}),
       Stmt(151, {}, {"phi4"}),
       Stmt(153, {"phi1", "phi2", "phi3", "phi4"}, {"joint_angles"}),
       \* the call's value is an expression statement: the returned tuple is dropped
       Stmt(156, {"forward_kinematics", "joint_angles", "L1", "L2", "L3", "L4"}, {}),
       Stmt(166, {"createCoordinateFrameMesh"}, {"Frame1Arrows"}),
       Stmt(169, {}, {"r1"}),
       Stmt(171, {"Cylinder", "L1", "r1"}, {"link1_mesh"}),
       Stmt(178, {"Sphere", "r1"}, {"sphere1"}),
       Stmt(180, {"Frame1Arrows", "link1_mesh", "sphere1"}, {"Frame1"}),
       Stmt(183, {"Frame1", "T_01"}, {}),
       Stmt(186, {"RotationMatrix", "phi2"}, {"R_12"}),
       Stmt(187, {"np", "L1", "r1"}, {"p2"}),
       Stmt(188, {"p2"}, {"t_12"}),
       Stmt(191, {"getLocalFrameMatrix", "R_12", "t_12"}, {"T_12"}),
       Stmt(194, {"T_01", "T_12"}, {"T_02"}),
       Stmt(197, {"createCoordinateFrameMesh"}, {"Frame2Arrows"}),
       Stmt(200, {"Cylinder", "L2", "r1"}, {"link2_mesh"}),
       Stmt(209, {"Sphere", "r1"}, {"sphere2"}),
       Stmt(211, {"Frame2Arrows", "link2_mesh", "sphere2"}, {"Frame2"}),
       Stmt(214, {"Frame2", "T_02"}, {}),
       Stmt(217, {"RotationMatrix", "phi3"}, {"R_23"}),
       Stmt(218, {"np", "L2", "r1"}, {"p3"}),
       Stmt(219, {"p3"}, {"t_23"}),
       Stmt(222, {"getLocalFrameMatrix", "R_23", "t_23"}, {"T_23"}),
       Stmt(225, {"T_01", "T_12", "T_23"}, {"T_03"}),
       Stmt(231, {"Cylinder", "L3", "r1"}, {"link3_mesh"}),
       Stmt(239, {"Sphere", "r1"}, {"sphere3"}),
       Stmt(241, {"createCoordinateFrameMesh"}, {"Frame3Arrows"}),
       Stmt(242, {"Frame3Arrows", "link3_mesh", "sphere3"}, {"Frame3"}),
       Stmt(244, {"Frame3", "T_03"}, {}),
       Stmt(247, {"show", "Frame1", "Frame2", "Frame3", "axes"}, {}) >>

\* the names main assigns somewhere in its body: Python makes exactly these local
MainLocals == UNION {MainBody[i].binds : i \in 1..Len(MainBody)}

\* the names of a statement that have no value when it runs
Unbound(stmt, bound) ==
    {n \in stmt.reads : IF n \in MainLocals THEN n \notin bound
                                            ELSE n \notin ModuleGlobals}

\* executing one statement of main
Exec(m) ==
    LET stmt == MainBody[m.pc]
        missing == Unbound(stmt, m.bound)
    IN  IF missing = {}
        THEN [m EXCEPT !.pc = m.pc + 1, !.bound = m.bound \cup stmt.binds]
        ELSE [m EXCEPT !.exc = IF missing \cap MainLocals # {}
                                THEN "UnboundLocalError" ELSE "NameError"]

---------------------------------------------------------------------------
(* The state machine *)

rm0 == [theta |-> 0, axis_name |-> "", ret |-> [exc |-> "none", val |-> None]]
lf0 == [R_ij |-> None, t_ij |-> None, ret |-> None]
fk0 == [Enter(<<>>, 0, 0, 0, 0) EXCEPT !.pc = "idle"]
mn0 == [pc |-> 0, bound |-> {}, exc |-> "none"]

\* 3x3 arrays handed to getLocalFrameMatrix: the rotations, and multiples of
\* the identity that are no rotations
Matrices3x3 ==
    {RotationMatrix(th, a).val : th \in RotAngles, a \in {"x", "y", "z"}}
        \cup {[i \in 1..3 |-> [j \in 1..3 |-> IF i = j THEN k ELSE 0]] : k \in 0..MaxLink + 1}

Columns3x1 == {column(x, y, z) : x \in LinkLengths, y \in LinkLengths, z \in {0 - MaxLink, 0}}

Init ==
    /\ running = "none"
    /\ rm = rm0
    /\ lf = lf0
    /\ fk = fk0
    /\ mn = mn0

Call_RotationMatrix ==
    /\ running = "none"
    /\ \E theta \in RotAngles, axis_name \in AxisNames :
          rm' = [theta |-> theta, axis_name |-> axis_name,
                 ret |-> RotationMatrix(theta, axis_name)]
    /\ running' = "RotationMatrix"
    /\ UNCHANGED <<lf, fk, mn>>

Call_getLocalFrameMatrix ==
    /\ running = "none"
    /\ \E R_ij \in Matrices3x3, t_ij \in Columns3x1 :
          lf' = [R_ij |-> R_ij, t_ij |-> t_ij, ret |-> getLocalFrameMatrix(R_ij, t_ij)]
    /\ running' = "getLocalFrameMatrix"
    /\ UNCHANGED <<rm, fk, mn>>

Call_forward_kinematics ==
    /\ running = "none"
    /\ \E Phi \in PhiLists, L1 \in LinkLengths, L2 \in LinkLengths,
          L3 \in LinkLengths, L4 \in LinkLengths :
          fk' = Enter(Phi, L1, L2, L3, L4)
    /\ running' = "forward_kinematics"
    /\ UNCHANGED <<rm, lf, mn>>

FK_Matrix1 ==
    /\ running = "forward_kinematics" /\ fk.pc = "Matrix1"
    /\ fk' = Matrix1(fk)
    /\ UNCHANGED <<running, rm, lf, mn>>

FK_Matrix2 ==
    /\ running = "forward_kinematics" /\ fk.pc = "Matrix2"
    /\ fk' = Matrix2(fk)
    /\ UNCHANGED <<running, rm, lf, mn>>

FK_Matrix3 ==
    /\ running = "forward_kinematics" /\ fk.pc = "Matrix3"
    /\ fk' = Matrix3(fk)
    /\ UNCHANGED <<running, rm, lf, mn>>

FK_Matrix4 ==
    /\ running = "forward_kinematics" /\ fk.pc = "Matrix4"
    /\ fk' = Matrix4(fk)
    /\ UNCHANGED <<running, rm, lf, mn>>

FK_Return ==
    /\ running = "forward_kinematics" /\ fk.pc = "Return"
    /\ fk' = Return(fk)
    /\ UNCHANGED <<running, rm, lf, mn>>

Call_main ==
    /\ running = "none"
    /\ mn' = [mn0 EXCEPT !.pc = 1]
    /\ running' = "main"
    /\ UNCHANGED <<rm, lf, fk>>

Main_Step ==
    /\ running = "main" /\ mn.exc = "none" /\ mn.pc \in 1..Len(MainBody)
    /\ mn' = Exec(mn)
    /\ UNCHANGED <<running, rm, lf, fk>>

Next ==
    \/ Call_RotationMatrix
    \/ Call_getLocalFrameMatrix
    \/ Call_forward_kinematics
    \/ FK_Matrix1
    \/ FK_Matrix2
    \/ FK_Matrix3
    \/ FK_Matrix4
    \/ FK_Return
    \/ Call_main
    \/ Main_Step

Spec == Init /\ [][Next]_vars

---------------------------------------------------------------------------
(* Properties *)

ValidAxes == {"x", "y", "z"}

Identity3 == << <<1, 0, 0>>, <<0, 1, 0>>, <<0, 0, 1>> >>

Transpose(M) == array([j \in 1..Len(M[1]) |-> array([i \in 1..Len(M) |-> M[i][j]])])

Det3(M) ==
      M[1][1] * (M[2][2] * M[3][3] - M[2][3] * M[3][2])
    - M[1][2] * (M[2][1] * M[3][3] - M[2][3] * M[3][1])
    + M[1][3] * (M[2][1] * M[3][2] - M[2][2] * M[3][1])

BottomRowOK(T) == Len(T) = 4 /\ T[4] = <<0, 0, 0, 1>>

Is4x4(T) == Len(T) = 4 /\ \A i \in 1..4 : Len(T[i]) = 4

FKEnded == running = "forward_kinematics" /\ fk.pc \in {"returned", "raised"}

FKReturned == running = "forward_kinematics" /\ fk.pc = "returned"

\* what the caller of forward_kinematics observes: the value or the exception
Outcome(f) == <<f.ret, f.exc>>

\* the transform [RotZ(phi), (tx, ty, 0)] written out entry by entry
RotZTransform(phi, tx, ty) ==
    << <<cos(phi), 0 - sin(phi), 0, tx>>,
       <<sin(phi), cos(phi),     0, ty>>,
       <<0,        0,            1, 0>>,
       <<0,        0,            0, 1>> >>

\* T(i-1 -> i) as the specification defines it: base offset (3, 2, 0) for the
\* first joint, previous link length + 2 * 0.4 along x for the others (tenths)
LocalTransform(i) ==
    IF i = 1 THEN RotZTransform(fk.Phi[1], 30, 20)
    ELSE RotZTransform(fk.Phi[i], <<fk.L1, fk.L2, fk.L3>>[i - 1] + 8, 0)

RECURSIVE ChainProduct(_)
\* T(0 -> i) = T(0 -> 1) . T(1 -> 2) . ... . T(i-1 -> i), left to right
ChainProduct(i) ==
    IF i = 1 THEN LocalTransform(1)
    ELSE MatMul(ChainProduct(i - 1), LocalTransform(i))

\* C1: for every axis identifier outside {x, y, z} and every angle,
\* RotationMatrix fails with an InvalidAxis error and returns no matrix.
C1_InvalidAxisIsRejected ==
    (running = "RotationMatrix" /\ rm.axis_name \notin ValidAxes)
        => (rm.ret.exc = "InvalidAxis" /\ Len(rm.ret.val) = 0)

\* C2: whenever the number of joint angles differs from the number of link
\* lengths (four), forward_kinematics fails with a DimensionMismatch error
\* and returns no transforms.
C2_LengthMismatchIsRejected ==
    (FKEnded /\ Len(fk.Phi) # 4)
        => (fk.exc = "DimensionMismatch" /\ Len(fk.ret) = 0)

\* C3: each returned world transform T_0i, i = 1..4, is the left-to-right
\* product of the local transforms [RotZ(phi_1), (3,2,0)] and
\* [RotZ(phi_i), (L_(i-1) + 2*0.4, 0, 0)], and T_0i = T_0(i-1) . T_(i-1)i.
C3_WorldTransformsAreChainProducts ==
    FKReturned =>
        \A i \in 1..4 :
            /\ fk.ret[i] = ChainProduct(i)
            /\ i > 1 => fk.ret[i] = MatMul(fk.ret[i - 1], LocalTransform(i))

C3_Witness ==
    /\ FKReturned
    /\ fk.Phi[2] # 0 /\ fk.Phi[3] # 0
    /\ fk.L1 # fk.L2

\* C4: the returned end-effector position e is the translation block (rows
\* 0..2 of the last column) of the returned T_04.
C4_EndEffectorIsTranslationOfT04 ==
    FKReturned =>
        /\ Len(fk.ret[5]) = 3
        /\ \A i \in 1..3 : fk.ret[5][i] = fk.ret[4][i][4]

C4_Witness ==
    /\ FKReturned
    /\ fk.Phi[1] # 0
    /\ \E i \in 1..3 : fk.ret[5][i] # fk.ret[3][i][4]

\* C5: with all joint angles 0 the end-effector position is the base offset
\* (3, 2, 0) plus every translation term (link length + 2 * 0.4, for the
\* links L1, L2 and L3 that precede a joint) along x; y and z stay 2 and 0.
C5_ZeroAnglesGiveStraightLine ==
    (FKReturned /\ \A i \in 1..Len(fk.Phi) : fk.Phi[i] = 0)
        => fk.ret[5] = <<30 + (fk.L1 + 8) + (fk.L2 + 8) + (fk.L3 + 8), 20, 0>>

C5_Witness ==
    /\ FKReturned
    /\ \A i \in 1..Len(fk.Phi) : fk.Phi[i] = 0
    /\ fk.L1 > 0 /\ fk.L3 > 0

\* C6: for every axis in {x, y, z} and every multiple of 90 degrees,
\* RotationMatrix returns R with R . R^T = I and det(R) = 1.
C6_RotationIsOrthonormal ==
    (running = "RotationMatrix" /\ rm.axis_name \in ValidAxes)
        => /\ rm.ret.exc = "none"
           /\ MatMul(rm.ret.val, Transpose(rm.ret.val)) = Identity3
           /\ Det3(rm.ret.val) = 1

C6_Witness ==
    /\ running = "RotationMatrix"
    /\ rm.axis_name = "x"
    /\ rm.theta = 90
    /\ rm.ret.val # Identity3

\* C7: every transform has bottom row [0, 0, 0, 1]: the result of
\* getLocalFrameMatrix for any 3x3 R and 3x1 t, and each of T_01, T_02, T_03,
\* T_04 of forward_kinematics.
C7_BottomRowIs0001 ==
    /\ running = "getLocalFrameMatrix" => BottomRowOK(lf.ret)
    /\ \A T \in {fk.T_01, fk.T_12, fk.T_02, fk.T_23, fk.T_03, fk.T_34, fk.T_04} :
          Len(T) # 0 => BottomRowOK(T)
    /\ FKReturned => \A i \in 1..4 : BottomRowOK(fk.ret[i])

C7_Witness ==
    /\ FKReturned
    /\ fk.Phi[1] # 0 /\ fk.Phi[4] # 0
    /\ fk.ret[4][1][4] # 30

\* C8: a call of forward_kinematics either returns all four world transforms
\* and the end-effector position, or ends in an error with nothing returned;
\* the caller never receives a subset of the transforms.
C8_NoPartialResult ==
    /\ fk.pc # "returned" => Len(fk.ret) = 0
    /\ fk.pc = "raised" => fk.exc # "none"
    /\ fk.pc = "returned" =>
          /\ fk.exc = "none"
          /\ Len(fk.ret) = 5
          /\ \A i \in 1..4 : Is4x4(fk.ret[i])
          /\ Len(fk.ret[5]) = 3

C8_Witness ==
    /\ running = "forward_kinematics"
    /\ fk.pc = "raised"
    /\ Len(fk.T_02) # 0

\* C9: every name main reads has been assigned before it is read, so main
\* runs through to the show step without an unbound-name failure.
C9_MainReadsOnlyBoundNames ==
    running = "main" =>
        /\ mn.exc = "none"
        /\ mn.pc \in 1..Len(MainBody) => Unbound(MainBody[mn.pc], mn.bound) = {}

\* C10: the outcome of forward_kinematics does not depend on L4: a call that
\* differs only in L4 gives the same T_01, T_02, T_03, T_04 and e.
C10_ResultIndependentOfL4 ==
    FKEnded =>
        \A l4 \in LinkLengths :
            Outcome(forward_kinematics(fk.Phi, fk.L1, fk.L2, fk.L3, l4)) = Outcome(fk)

C10_Witness ==
    /\ FKReturned
    /\ fk.L4 # fk.L3
    /\ fk.L4 > 0

====
